---- MODULE Spec2Model ----
(***************************************************************************)
(* Model of src/model.py: the STFT and Spectrogram transforms, the         *)
(* OpenUnmix source estimator and the Separator orchestration.             *)
(*                                                                         *)
(* Tensors are functions over 0-based index ranges, nested in the axis     *)
(* order of the source.  Sample values are integers.  The transform is     *)
(* instantiated with n_fft = 2 and n_hop = 1: the periodic Hann window of  *)
(* length 2 is (0, 1), and both one-sided bins (DC and Nyquist) of a       *)
(* length-2 DFT are real, so every value the pipeline computes is an exact *)
(* integer.                                                                *)
(***************************************************************************)
EXTENDS Integers, Sequences, FiniteSets, TLC

VARIABLES
    \* ---- Separator object (self) ----
    self,            \* [niter, residual, batch_size, targets, nb_targets, sample_rate]
    self0,           \* history: the value of self right after __init__
    given,           \* history: the keys of the mapping passed to __init__, in
                     \* the caller's insertion order
    \* ---- one Separator.forward call ----
    pc,              \* position in forward: idle, targets, guard, sample, window, done, failed (off: no call)
    audio,           \* the argument (nb_samples, nb_channels, nb_timesteps)
    audio0,          \* history: the argument's values when forward was entered
    spectrograms,    \* local `spectrograms` (None is <<>>)
    j,               \* loop index of `for j, target in enumerate(self.targets)`
    unmix_target,    \* local `unmix_target`: name of the last target visited
    mix_stft,        \* local `mix_stft`
    targets,         \* local `targets`: list of output names
    nb_sources,      \* local `nb_sources`
    nb_frames,       \* local `nb_frames`
    targets_stft,    \* local `targets_stft`
    sample,          \* loop variable of `for sample in range(nb_samples)`
    pos,             \* local `pos`
    batch_size,      \* local `batch_size`
    estimates,       \* the value forward returns
    err,             \* the exception forward raised ("" when none)
    hist,            \* history of the call: allocations, slice writes, windows
    \* ---- one OpenUnmix.forward call on a stand-alone estimator ----
    um_model,        \* the estimator's parameters
    um_pc,           \* idle, called, returned, raised (off: none)
    um_x,            \* the caller's tensor object (its current contents)
    um_x0,           \* history: its contents when forward was entered
    um_out           \* the value forward returned

sepVars == <<self, self0, given, pc, audio, audio0, spectrograms, j, unmix_target,
             mix_stft, targets, nb_sources, nb_frames, targets_stft, sample,
             pos, batch_size, estimates, err, hist>>
umVars == <<um_model, um_pc, um_x, um_x0, um_out>>
vars == <<sepVars, umVars>>

(***************************************************************************)
(* Bounds of the model.                                                    *)
(***************************************************************************)
MaxTimesteps == 2      \* longest waveform, in samples
MaxSamples == 2        \* largest batch (audio.shape[0])
MaxNiter == 1          \* largest EM iteration count
MaxBatchSize == 2      \* largest positive batch_size

(***************************************************************************)
(* Program constants, as instantiated in the model.                        *)
(***************************************************************************)
NFft == 2              \* n_fft
NHop == 1              \* n_hop
NHopWide == 3          \* an n_hop larger than n_fft and than the shortest waveform
SampleRate == 44100    \* sample_rate

NbOutputBins == NFft \div 2 + 1          \* self.nb_output_bins
MinTimesteps == NFft \div 2 + 1          \* reflect padding needs pad < length

(***************************************************************************)
(* Python values.                                                          *)
(***************************************************************************)
None == <<>>
Some(v) == <<v>>
IsNone(o) == o = <<>>
Val(o) == o[1]

Range0(n) == 0 .. (n - 1)
Len0(f) == Cardinality(DOMAIN f)
Min(a, b) == IF a <= b THEN a ELSE b

RECURSIVE SumRange(_, _, _)
\* sum of f[i] for i in lo..hi-1
SumRange(f, lo, hi) == IF lo >= hi THEN 0 ELSE f[lo] + SumRange(f, lo + 1, hi)

ISqrt(n) == CHOOSE r \in 0 .. n : r * r <= n /\ (r + 1) * (r + 1) > n

(***************************************************************************)
(* NoOp.forward                                                            *)
(***************************************************************************)
NoOp_forward(x) == x

(***************************************************************************)
(* STFT                                                                    *)
(***************************************************************************)
\* torch.hann_window(n_fft), periodic, for n_fft = 2: 0.5 - 0.5 cos(pi n)
HannWindow == [n \in Range0(NFft) |-> IF n % 2 = 0 THEN 0 ELSE 1]

\* pad_mode='reflect' with center=True: n_fft // 2 samples on each side
ReflectPad(x, pad) ==
    LET T == Len0(x)
    IN [i \in Range0(T + 2 * pad) |->
          LET k == i - pad
          IN IF k < 0 THEN x[-k]
             ELSE IF k >= T THEN x[2 * (T - 1) - k]
             ELSE x[k]]

\* cos and -sin of 2 pi k n / n_fft for n_fft = 2
DftCos(k, n) == IF (k * n) % 2 = 0 THEN 1 ELSE -1
DftSin(k, n) == 0

\* torch.stft of one row: result[bin][frame] = <<re, im>>
Stft1(x, n_hop) ==
    LET pad == NFft \div 2
        p == ReflectPad(x, pad)
        frames == 1 + (Len0(p) - NFft) \div n_hop
    IN [k \in Range0(NbOutputBins) |->
          [f \in Range0(frames) |->
             << SumRange([n \in Range0(NFft) |->
                            HannWindow[n] * p[f * n_hop + n] * DftCos(k, n)], 0, NFft),
                SumRange([n \in Range0(NFft) |->
                            HannWindow[n] * p[f * n_hop + n] * DftSin(k, n)], 0, NFft) >>]]

\* STFT.forward: (nb_samples, nb_channels, nb_timesteps)
\*            -> (nb_samples, nb_channels, nb_bins, nb_frames, 2)
STFT_forward(x, n_hop) ==
    [s \in DOMAIN x |-> [c \in DOMAIN x[s] |-> Stft1(x[s][c], n_hop)]]

(***************************************************************************)
(* Spectrogram                                                             *)
(***************************************************************************)
\* pow(2).sum(-1).pow(power / 2) of one complex value
MagPow(z, power) ==
    LET n == z[1] * z[1] + z[2] * z[2]
    IN IF power = 2 THEN n ELSE ISqrt(n)

\* Spectrogram.forward: (nb_samples, nb_channels, nb_bins, nb_frames, 2)
\*                   -> (nb_frames, nb_samples, nb_channels or 1, nb_bins)
Spectrogram_forward(stft_f, power, mono) ==
    LET nbs == Len0(stft_f)
        nbc == Len0(stft_f[0])
        nbk == Len0(stft_f[0][0])
        nbf == Len0(stft_f[0][0][0])
        mag == [s \in Range0(nbs) |-> [c \in Range0(nbc) |->
                  [f \in Range0(nbf) |-> [k \in Range0(nbk) |->
                     MagPow(stft_f[s][c][k][f], power)]]]]
        down == IF mono
                THEN [s \in Range0(nbs) |-> [c \in Range0(1) |->
                        [f \in Range0(nbf) |-> [k \in Range0(nbk) |->
                           SumRange([d \in Range0(nbc) |-> mag[s][d][f][k]], 0, nbc)
                             \div nbc]]]]
                ELSE mag
    IN [f \in Range0(nbf) |-> [s \in Range0(nbs) |->
          [c \in DOMAIN down[s] |-> [k \in Range0(nbk) |-> down[s][c][f][k]]]]]

(***************************************************************************)
(* OpenUnmix                                                               *)
(*                                                                         *)
(* An estimator is the record of its parameters:                           *)
(*   input_is_spectrogram, nb_channels, power, nb_bins (max_bin), n_hop,   *)
(*   input_mean, input_scale (per cropped bin),                            *)
(*   output_scale, output_mean (per output bin),                           *)
(*   bn3_bias (per output feature),                                        *)
(*   training (nn.Module.training: TRUE after __init__, FALSE after eval()).*)
(* The dense and recurrent stages (fc1 .. bn3) are instantiated with       *)
(* fc3.weight = 0, for which bn3 returns its bias for every frame: in      *)
(* training mode the batch statistics of its all-zero input are mean 0 and *)
(* variance 0, in evaluation mode the running mean is 0, and in both the   *)
(* normalised value is 0.  The running statistics, which training mode     *)
(* updates, therefore never reach the output and are not part of the       *)
(* record.                                                                 *)
(***************************************************************************)
\* self.transform, chosen in __init__
Transform(m, x) ==
    IF m.input_is_spectrogram
    THEN NoOp_forward(x)
    ELSE Spectrogram_forward(STFT_forward(x, m.n_hop), m.power, m.nb_channels = 1)

\* x = x[..., :nb_bins]; x += input_mean; x *= input_scale
\* The crop is a view: the two in-place updates write through to the storage
\* of the tensor the view was taken from.  The result is that storage.
CropShiftScale(m, x) ==
    [f \in DOMAIN x |-> [s \in DOMAIN x[f] |-> [c \in DOMAIN x[f][s] |->
       [k \in DOMAIN x[f][s][c] |->
          IF k < m.nb_bins
          THEN (x[f][s][c][k] + m.input_mean[k]) * m.input_scale[k]
          ELSE x[f][s][c][k]]]]]

\* self.bn1(x) on the (nb_frames*nb_samples, hidden_size) rows: in training
\* mode BatchNorm1d raises ValueError("Expected more than 1 value per channel
\* when training") when there is a single row
BatchNormRaises(m, x) ==
    m.training /\ Len0(x) * Len0(x[0]) = 1

\* fc1, bn1, tanh, lstm, fc2, bn2, relu, fc3, bn3 and the reshape to
\* (nb_frames, nb_samples, nb_channels, nb_output_bins), when bn1 does not
\* raise
Body(m, x) ==
    [f \in DOMAIN x |-> [s \in DOMAIN x[f] |-> [c \in DOMAIN x[f][s] |->
       [k \in Range0(NbOutputBins) |-> m.bn3_bias[c * NbOutputBins + k]]]]]

\* x *= output_scale; x += output_mean
OutputAffine(m, x) ==
    [f \in DOMAIN x |-> [s \in DOMAIN x[f] |-> [c \in DOMAIN x[f][s] |->
       [k \in DOMAIN x[f][s][c] |->
          x[f][s][c][k] * m.output_scale[k] + m.output_mean[k]]]]]

ReluMutant(v) == v
\* F.relu
Relu(v) == IF v > 0 THEN v ELSE 0

\* F.relu(x) * mix
Mask(x, mix) ==
    [f \in DOMAIN x |-> [s \in DOMAIN x[f] |-> [c \in DOMAIN x[f][s] |->
       [k \in DOMAIN x[f][s][c] |-> Relu(x[f][s][c][k]) * mix[f][s][c][k]]]]]

\* OpenUnmix.forward.  raised: the call ends in the ValueError of bn1, after
\* the in-place steps; out: the returned tensor (None when raised); arg: the
\* contents of the caller's tensor object when forward returns or raises.
OpenUnmix_forward(m, arg) ==
    LET x0 == Transform(m, arg)
        mix == x0                         \* x.detach().clone()
        storage == CropShiftScale(m, x0)  \* x0's storage after the in-place steps
        x == [f \in DOMAIN storage |-> [s \in DOMAIN storage[f] |->
                [c \in DOMAIN storage[f][s] |->
                   [k \in Range0(m.nb_bins) |-> storage[f][s][c][k]]]]]
    IN [raised |-> BatchNormRaises(m, x),
        out |-> IF BatchNormRaises(m, x) THEN None
                ELSE Mask(OutputAffine(m, Body(m, x)), mix),
        arg |-> IF m.input_is_spectrogram THEN storage ELSE arg]

(***************************************************************************)
(* filtering.wiener, the refinement primitive, imported by model.py.  Only *)
(* its contract is known: it takes the magnitudes of the sources and the   *)
(* complex mixture for the frames of one window,                           *)
(*   v[i][k][c][src]  magnitudes of the frames of the window               *)
(*   x[i][k][c]       complex mixture <<re, im>> of the same frames        *)
(* the iteration count, the masking flag and the residual name, and        *)
(* returns one complex value per frame, bin, channel and source, with one  *)
(* more source when a residual is requested.  Its values are left          *)
(* uninterpreted: each is a term over the arguments of the call.           *)
(***************************************************************************)
wiener(v, x, niter, use_softmask, residual) ==
    LET nsrc == Len0(v[0][0][0]) + (IF IsNone(residual) THEN 0 ELSE 1)
        call == [v |-> v, x |-> x, niter |-> niter,
                 use_softmask |-> use_softmask, residual |-> residual]
    IN [i \in DOMAIN v |-> [k \in DOMAIN v[i] |-> [c \in DOMAIN v[i][k] |->
          [src \in Range0(nsrc) |-> << "wiener", call, i, k, c, src >>]]]]

(***************************************************************************)
(* torchaudio.functional.istft of one (bin, frame) spectrogram, for        *)
(* n_fft = 2, n_hop = 1, the window (0, 1) and center=True: frame i        *)
(* contributes (X0 - X1) / 2 to sample i, where the window envelope is 1.  *)
(* A refined (uninterpreted) value is inverted to an uninterpreted sample. *)
(* istft rejects a hop_length larger than the window length.               *)
(***************************************************************************)
IstftRejects(n_hop) == n_hop > NFft

IsComplex(z) == Len(z) = 2

Istft1(spec, length) ==
    [i \in Range0(length) |->
       IF IsComplex(spec[0][i]) /\ IsComplex(spec[1][i])
       THEN (spec[0][i][1] - spec[1][i][1]) \div 2
       ELSE << "istft", spec[0][i], spec[1][i] >>]

(***************************************************************************)
(* Separator                                                               *)
(***************************************************************************)
NbChannels == 2        \* nb_channels

TargetNames == {"vocals", "drums"}

\* The estimator registered under each name: a waveform-mode OpenUnmix with
\* default normalisation, whose gain relu(bn3_bias * 1 + 1) differs by name.
\* cfg: what the registered estimators share, the mode (training as
\* constructed, or evaluation after eval()) and the hop of their transform.
EstimatorOf(name, cfg) ==
    [input_is_spectrogram |-> FALSE,
     n_hop |-> cfg.n_hop,
     nb_channels |-> NbChannels,
     power |-> 1,
     nb_bins |-> NbOutputBins,
     sample_rate |-> SampleRate,
     training |-> cfg.training,
     input_mean |-> [k \in Range0(NbOutputBins) |-> 0],
     input_scale |-> [k \in Range0(NbOutputBins) |-> 1],
     output_scale |-> [k \in Range0(NbOutputBins) |-> 1],
     output_mean |-> [k \in Range0(NbOutputBins) |-> 1],
     bn3_bias |-> [n \in Range0(NbChannels * NbOutputBins) |->
                     IF name = "vocals" THEN 0 ELSE 1]]

\* sorted(keys): the keys in alphabetical order
KeyOrder == <<"drums", "vocals">>
SortKeys(tg) == SelectSeq(KeyOrder, LAMBDA k : \E i \in 1 .. Len(tg) : tg[i] = k)

\* nn.ModuleDict(targets): the order in which the keys are registered, which
\* is the order `for target in self.targets` and self.targets.keys() follow.
\* `tg` is the list of keys of the caller's mapping in insertion order.
\* ModuleDict.update keeps that order, or, for a plain dict on the torch
\* releases that sort it, registers the keys in sorted order.
ModuleDict(tg, sorts) == IF sorts THEN SortKeys(tg) ELSE tg

\* Separator.__init__
Separator_init(tg, sorts, cfg, niter, residual, bs) ==
    [niter |-> niter,
     residual |-> residual,
     batch_size |-> bs,
     targets |-> ModuleDict(tg, sorts),
     estimators |-> cfg,
     nb_targets |-> Len(ModuleDict(tg, sorts)),
     sample_rate |-> EstimatorOf(ModuleDict(tg, sorts)[1], cfg).sample_rate]

\* torch.zeros(target_spectrogram.shape + (nb_sources,))
ZerosLike(ts, n) ==
    [f \in DOMAIN ts |-> [s \in DOMAIN ts[f] |-> [c \in DOMAIN ts[f][s] |->
       [k \in DOMAIN ts[f][s][c] |-> [src \in Range0(n) |-> 0]]]]]

SetSliceMutant(sp, jj, ts) ==
    [f \in DOMAIN sp |-> [s \in DOMAIN sp[f] |-> [c \in DOMAIN sp[f][s] |->
       [k \in DOMAIN sp[f][s][c] |->
          [src \in DOMAIN sp[f][s][c][k] |->
             IF src = 0 THEN ts[f][s][c][k] ELSE sp[f][s][c][k][src]]]]]]
\* spectrograms[..., j] = target_spectrogram
SetSlice(sp, jj, ts) ==
    [f \in DOMAIN sp |-> [s \in DOMAIN sp[f] |-> [c \in DOMAIN sp[f][s] |->
       [k \in DOMAIN sp[f][s][c] |->
          [src \in DOMAIN sp[f][s][c][k] |->
             IF src = jj THEN ts[f][s][c][k] ELSE sp[f][s][c][k][src]]]]]]

\* spectrograms.permute(1, 0, 3, 2, 4):
\* (frames, samples, channels, bins, sources) -> (samples, frames, bins, channels, sources)
PermuteSpectrograms(sp) ==
    LET nbf == Len0(sp)
        nbs == Len0(sp[0])
        nbc == Len0(sp[0][0])
        nbk == Len0(sp[0][0][0])
    IN [s \in Range0(nbs) |-> [f \in Range0(nbf) |-> [k \in Range0(nbk) |->
          [c \in Range0(nbc) |-> sp[f][s][c][k]]]]]

\* mix_stft.permute(0, 3, 2, 1, 4):
\* (samples, channels, bins, frames, 2) -> (samples, frames, bins, channels, 2)
PermuteMix(st) ==
    LET nbs == Len0(st)
        nbc == Len0(st[0])
        nbk == Len0(st[0][0])
        nbf == Len0(st[0][0][0])
    IN [s \in Range0(nbs) |-> [f \in Range0(nbf) |-> [k \in Range0(nbk) |->
          [c \in Range0(nbc) |-> st[s][c][k][f]]]]]

\* targets = list(self.targets.keys()); if residual is not None: targets += [residual]
OutputNames(slf) ==
    IF IsNone(slf.residual) THEN slf.targets
    ELSE Append(slf.targets, Val(slf.residual))

ConfigErrorMutant(tg, niter) == Len(tg) = 1 /\ niter >= 0
\* if len(targets) == 1 and self.niter > 0
ConfigError(tg, niter) == Len(tg) = 1 /\ niter > 0

\* torch.zeros(mix_stft.shape + (nb_sources,))
ZerosStft(mix, n) ==
    [s \in DOMAIN mix |-> [f \in DOMAIN mix[s] |-> [k \in DOMAIN mix[s][f] |->
       [c \in DOMAIN mix[s][f][k] |-> [src \in Range0(n) |-> <<0, 0>>]]]]]

\* self.batch_size if self.batch_size else nb_frames
EffectiveBatchSize(bs, nbf) ==
    IF IsNone(bs) \/ Val(bs) = 0 THEN nbf ELSE Val(bs)

WindowEndMutant(nbf, p, bs) == Min(nbf, p + bs + 1)
\* min(nb_frames, pos + batch_size)
WindowEnd(nbf, p, bs) == Min(nbf, p + bs)

\* torch.arange(a, b) for a <= b, as the list of its values
Arange(a, b) == [i \in 1 .. (b - a) |-> a + i - 1]

NextPosMutant(t) == t[Len(t)] + 2
\* pos = t[-1] + 1
NextPos(t) == t[Len(t)] + 1

\* tensor[sample, t]: the frames of one batch item listed in t
SelectFrames(x, t) == [i \in Range0(Len(t)) |-> x[t[i + 1]]]

\* targets_stft[sample, t] = <result of wiener>
WriteWindow(ts, smp, t, res) ==
    [s \in DOMAIN ts |-> [f \in DOMAIN ts[s] |->
       IF s = smp /\ \E i \in 1 .. Len(t) : t[i] = f
       THEN res[(CHOOSE i \in 1 .. Len(t) : t[i] = f) - 1]
       ELSE ts[s][f]]]

\* targets_stft.permute(0, 5, 3, 2, 1, 4) and istft(..., length=audio.shape[-1]):
\* (samples, frames, bins, channels, 2, sources) -> (samples, sources, channels, timesteps)
InvertAll(ts, n, length) ==
    [s \in DOMAIN ts |-> [src \in Range0(n) |->
       [c \in DOMAIN ts[s][0][0] |->
          Istft1([k \in DOMAIN ts[s][0] |->
                    [f \in DOMAIN ts[s] |-> ts[s][f][k][c][src]]], length)]]]

\* the value forward returns: `estimates = {}` is overwritten by the tensor
\* istft returns
ReturnValue(ts, n, length) ==
    [type |-> "Tensor", value |-> InvertAll(ts, n, length)]

(***************************************************************************)
(* Inputs.                                                                 *)
(***************************************************************************)
SampleValues == {-1, 0, 1}

\* batches for the Separator: a stereo item is a waveform on the left (silence,
\* a constant, or an impulse at the first sample) and the same waveform
\* reversed in time on the right; the items of a batch alternate in sign; a
\* batch has one item or MaxSamples items
Reverse(w) == [i \in DOMAIN w |-> w[Len0(w) - 1 - i]]
Stereo(w) == [c \in Range0(NbChannels) |-> IF c = 0 THEN w ELSE Reverse(w)]
Negate(item) == [c \in DOMAIN item |-> [i \in DOMAIN item[c] |-> -item[c][i]]]
Batch(item, n) == [s \in Range0(n) |-> IF s % 2 = 0 THEN item ELSE Negate(item)]
Waveforms(T) ==
    {[i \in Range0(T) |-> 0], [i \in Range0(T) |-> 1],
     [i \in Range0(T) |-> IF i = 0 THEN 1 ELSE 0]}
Audios ==
    UNION {{Batch(Stereo(w), n) : w \in Waveforms(T)} :
             <<T, n>> \in (MinTimesteps .. MaxTimesteps) \X {1, MaxSamples}}

TargetLists ==
    {<<a>> : a \in TargetNames}
      \cup {<<a, b>> : <<a, b>> \in {p \in TargetNames \X TargetNames : p[1] # p[2]}}

BatchSizes == {None} \cup {Some(b) : b \in {-1, 0, 1, MaxBatchSize}}
Residuals == {None, Some("residual")}

\* the estimators of a Separator: in training mode (as constructed) or in
\* evaluation mode, with hop NHop or NHopWide
EstimatorConfigs == [training : BOOLEAN, n_hop : {NHop, NHopWide}]

Separators(tg) ==
    {Separator_init(tg, sorts, cfg, n, r, b) :
        <<sorts, cfg, n, r, b>> \in
           BOOLEAN \X EstimatorConfigs \X (0 .. MaxNiter) \X Residuals \X BatchSizes}

NoHist == [allocs |-> 0, writes |-> <<>>, windows |-> <<>>]

\* the locals of forward outside a call
IdleLocals ==
    /\ audio = None /\ audio0 = None
    /\ spectrograms = None /\ j = 0 /\ unmix_target = ""
    /\ mix_stft = None /\ targets = <<>> /\ nb_sources = 0 /\ nb_frames = 0
    /\ targets_stft = None /\ sample = 0 /\ pos = 0 /\ batch_size = 0
    /\ estimates = None /\ err = "" /\ hist = NoHist

UnmixOff ==
    /\ um_model = EstimatorOf("vocals", [training |-> FALSE, n_hop |-> NHop])
    /\ um_pc = "off"
    /\ um_x = None /\ um_x0 = None /\ um_out = None

Init ==
    /\ given \in TargetLists
    /\ self \in Separators(given)
    /\ self0 = self
    /\ pc = "idle"
    /\ IdleLocals
    /\ UnmixOff

(***************************************************************************)
(* Separator.forward, step by step.                                        *)
(***************************************************************************)
\* entry: spectrograms = None; nb_sources = self.nb_targets
Call ==
    /\ pc = "idle"
    /\ \E a \in Audios : audio' = a /\ audio0' = a
    /\ spectrograms' = None
    /\ nb_sources' = self.nb_targets
    /\ j' = 0
    /\ pc' = "targets"
    /\ UNCHANGED <<self, self0, given, unmix_target, mix_stft, targets, nb_frames,
                   targets_stft, sample, pos, batch_size, estimates, err, hist>>
    /\ UNCHANGED umVars

\* one iteration of `for j, target in enumerate(self.targets)`
EstimateTarget ==
    /\ pc = "targets"
    /\ j < Len(self.targets)
    /\ LET target == self.targets[j + 1]
           r == OpenUnmix_forward(EstimatorOf(target, self.estimators), audio)
           fresh == IsNone(spectrograms)
           sp == IF fresh THEN ZerosLike(r.out, nb_sources) ELSE spectrograms
       IN /\ unmix_target' = target
          /\ audio' = r.arg
          /\ IF r.raised
             THEN /\ pc' = "failed" /\ err' = "ValueError"
                  /\ UNCHANGED <<spectrograms, hist, j>>
             ELSE /\ spectrograms' = SetSlice(sp, j, r.out)
                  /\ hist' = [hist EXCEPT !.allocs = IF fresh THEN @ + 1 ELSE @,
                                          !.writes = Append(@, <<j, target>>)]
                  /\ j' = j + 1
                  /\ UNCHANGED <<pc, err>>
    /\ UNCHANGED <<self, self0, given, audio0, mix_stft, targets, nb_sources,
                   nb_frames, targets_stft, sample, pos, batch_size, estimates>>
    /\ UNCHANGED umVars

PrepareMutant ==
    /\ pc = "targets"
    /\ j >= Len(self.targets)
    /\ spectrograms' = PermuteSpectrograms(spectrograms)
    /\ mix_stft' = PermuteMix(STFT_forward(audio, self.estimators.n_hop))
    /\ targets' = OutputNames(self)
    /\ nb_sources' = IF IsNone(self.residual) THEN nb_sources ELSE nb_sources + 1
    /\ self' = [self EXCEPT !.targets = OutputNames(self),
                            !.nb_targets = IF IsNone(self.residual) THEN @ ELSE @ + 1]
    /\ pc' = "guard"
    /\ UNCHANGED <<self0, given, audio, audio0, j, unmix_target, nb_frames,
                   targets_stft, sample, pos, batch_size, estimates, err, hist>>
    /\ UNCHANGED umVars
\* after the loop: permute, the mixture's STFT, the list of output names
Prepare ==
    /\ pc = "targets"
    /\ j >= Len(self.targets)
    /\ spectrograms' = PermuteSpectrograms(spectrograms)
    /\ mix_stft' = PermuteMix(STFT_forward(audio, self.estimators.n_hop))
    /\ targets' = OutputNames(self)
    /\ nb_sources' = IF IsNone(self.residual) THEN nb_sources ELSE nb_sources + 1
    /\ pc' = "guard"
    /\ UNCHANGED <<self, self0, given, audio, audio0, j, unmix_target, nb_frames,
                   targets_stft, sample, pos, batch_size, estimates, err, hist>>
    /\ UNCHANGED umVars

\* raise Exception('Cannot use EM if only one target is estimated ...')
GuardRaise ==
    /\ pc = "guard"
    /\ ConfigError(targets, self.niter)
    /\ pc' = "failed"
    /\ err' = "ConfigError"
    /\ UNCHANGED <<self, self0, given, audio, audio0, spectrograms, j, unmix_target,
                   mix_stft, targets, nb_sources, nb_frames, targets_stft,
                   sample, pos, batch_size, estimates, hist>>
    /\ UNCHANGED umVars

\* the guard passes: nb_frames, targets_stft, and the batch loop is entered
GuardPass ==
    /\ pc = "guard"
    /\ ~ConfigError(targets, self.niter)
    /\ nb_frames' = Len0(spectrograms[0])
    /\ targets_stft' = ZerosStft(mix_stft, nb_sources)
    /\ sample' = 0
    /\ pc' = "sample"
    /\ UNCHANGED <<self, self0, given, audio, audio0, spectrograms, j, unmix_target,
                   mix_stft, targets, nb_sources, pos, batch_size, estimates,
                   err, hist>>
    /\ UNCHANGED umVars

\* top of one iteration of `for sample in range(nb_samples)`
SampleStart ==
    /\ pc = "sample"
    /\ sample < Len0(audio)
    /\ pos' = 0
    /\ batch_size' = EffectiveBatchSize(self.batch_size, nb_frames)
    /\ pc' = "window"
    /\ UNCHANGED <<self, self0, given, audio, audio0, spectrograms, j, unmix_target,
                   mix_stft, targets, nb_sources, nb_frames, targets_stft,
                   sample, estimates, err, hist>>
    /\ UNCHANGED umVars

\* one iteration of `while pos < nb_frames`
WindowStep ==
    /\ pc = "window"
    /\ pos < nb_frames
    /\ LET stop == WindowEnd(nb_frames, pos, batch_size)
       IN IF stop < pos
          THEN \* torch.arange: upper bound and lower bound inconsistent with step sign
               /\ pc' = "failed" /\ err' = "RuntimeError"
               /\ UNCHANGED <<pos, targets_stft, hist>>
          ELSE IF stop = pos
          THEN \* t[-1] on an empty tensor
               /\ pc' = "failed" /\ err' = "IndexError"
               /\ UNCHANGED <<pos, targets_stft, hist>>
          ELSE LET t == Arange(pos, stop)
                   res == wiener(SelectFrames(spectrograms[sample], t),
                                 SelectFrames(mix_stft[sample], t),
                                 self.niter, FALSE, self.residual)
               IN /\ pos' = NextPos(t)
                  /\ targets_stft' = WriteWindow(targets_stft, sample, t, res)
                  /\ hist' = [hist EXCEPT !.windows =
                                Append(@, [sample |-> sample, read |-> t, written |-> t])]
                  /\ UNCHANGED <<pc, err>>
    /\ UNCHANGED <<self, self0, given, audio, audio0, spectrograms, j, unmix_target,
                   mix_stft, targets, nb_sources, nb_frames, sample, batch_size,
                   estimates>>
    /\ UNCHANGED umVars

\* the while loop ends; on to the next batch item
WindowExit ==
    /\ pc = "window"
    /\ pos >= nb_frames
    /\ sample' = sample + 1
    /\ pc' = "sample"
    /\ UNCHANGED <<self, self0, given, audio, audio0, spectrograms, j, unmix_target,
                   mix_stft, targets, nb_sources, nb_frames, targets_stft, pos,
                   batch_size, estimates, err, hist>>
    /\ UNCHANGED umVars

\* the for loop ends: estimates = {}; permute; istft; return estimates, or
\* the error istft raises
Invert ==
    /\ pc = "sample"
    /\ sample >= Len0(audio)
    /\ IF IstftRejects(self.estimators.n_hop)
       THEN /\ pc' = "failed" /\ err' = "IstftError"
            /\ estimates' = [type |-> "dict", value |-> <<>>]
       ELSE /\ pc' = "done"
            /\ estimates' = ReturnValue(targets_stft, nb_sources, Len0(audio[0][0]))
            /\ UNCHANGED err
    /\ UNCHANGED <<self, self0, given, audio, audio0, spectrograms, j, unmix_target,
                   mix_stft, targets, nb_sources, nb_frames, targets_stft,
                   sample, pos, batch_size, hist>>
    /\ UNCHANGED umVars

\* the call is over (returned or raised): its locals are gone
Finish ==
    /\ pc \in {"done", "failed"}
    /\ pc' = "idle"
    /\ audio' = None /\ audio0' = None
    /\ spectrograms' = None /\ j' = 0 /\ unmix_target' = ""
    /\ mix_stft' = None /\ targets' = <<>> /\ nb_sources' = 0 /\ nb_frames' = 0
    /\ targets_stft' = None /\ sample' = 0 /\ pos' = 0 /\ batch_size' = 0
    /\ estimates' = None /\ err' = "" /\ hist' = NoHist
    /\ UNCHANGED <<self, self0, given>>
    /\ UNCHANGED umVars

Step ==
    \/ EstimateTarget \/ Prepare \/ GuardRaise \/ GuardPass
    \/ SampleStart \/ WindowStep \/ WindowExit \/ Invert

Next == Call \/ Step \/ Finish

Spec == Init /\ [][Next]_vars

(***************************************************************************)
(* A stand-alone estimator and calls of OpenUnmix.forward.                 *)
(***************************************************************************)
Const(n, v) == [k \in Range0(n) |-> v]

\* OpenUnmix.__init__ over small parameter values
UnmixModels ==
    {[input_is_spectrogram |-> spec,
      n_hop |-> NHop,
      nb_channels |-> nbc,
      power |-> pw,
      nb_bins |-> nbb,
      sample_rate |-> SampleRate,
      training |-> tr,
      input_mean |-> Const(nbb, im),
      input_scale |-> Const(nbb, is),
      output_scale |-> Const(NbOutputBins, os),
      output_mean |-> Const(NbOutputBins, 1),
      bn3_bias |-> Const(nbc * NbOutputBins, b)] :
        <<tr, spec, nbc, pw, nbb, im, is, os, b>> \in
           BOOLEAN \X BOOLEAN \X (1 .. NbChannels) \X {1, 2} \X (1 .. NbOutputBins)
             \X {0, 1} \X {1, 2} \X {1, -1} \X {-2, 1}}

\* a spectrogram of nbf frames and one sample: the odd frames are the
\* first frame with its bins in reverse order
Frames(fr, nbf) ==
    [f \in Range0(nbf) |-> [s \in Range0(1) |->
       [c \in DOMAIN fr |-> IF f % 2 = 0 THEN fr[c] ELSE Reverse(fr[c])]]]

\* what a caller may pass: a waveform (nb_samples, nb_channels, nb_timesteps),
\* whose second channel, if any, is the first reversed in time,
\* or, to an estimator built with input_is_spectrogram, a tensor
\* (nb_frames, nb_samples, nb_channels, nb_output_bins)
UnmixInputs(m) ==
    IF m.input_is_spectrogram
    THEN {Frames(fr, n) :
            <<fr, n>> \in [Range0(m.nb_channels) ->
                             [Range0(NbOutputBins) -> SampleValues]]
                          \X (1 .. MaxTimesteps)}
    ELSE UNION {{[s \in Range0(1) |->
                    [c \in Range0(m.nb_channels) |-> Stereo(w)[c]]] :
                      w \in [Range0(T) -> SampleValues]} :
                  T \in MinTimesteps .. MaxTimesteps}

SeparatorOff ==
    /\ given = <<"vocals">>
    /\ self = Separator_init(given, FALSE, [training |-> FALSE, n_hop |-> NHop],
                             0, None, None)
    /\ self0 = self
    /\ pc = "off"
    /\ IdleLocals

InitUnmix ==
    /\ um_model \in UnmixModels
    /\ um_pc = "idle"
    /\ um_x = None /\ um_x0 = None /\ um_out = None
    /\ SeparatorOff

UnmixCall ==
    /\ um_pc = "idle"
    /\ \E x \in UnmixInputs(um_model) : um_x' = x /\ um_x0' = x
    /\ um_pc' = "called"
    /\ UNCHANGED <<um_model, um_out>>
    /\ UNCHANGED sepVars

\* OpenUnmix.forward: returns, or raises the ValueError of bn1
UnmixForward ==
    /\ um_pc = "called"
    /\ LET r == OpenUnmix_forward(um_model, um_x)
       IN /\ um_out' = r.out
          /\ um_x' = r.arg
          /\ um_pc' = IF r.raised THEN "raised" ELSE "returned"
    /\ UNCHANGED <<um_model, um_x0>>
    /\ UNCHANGED sepVars

UnmixFinish ==
    /\ um_pc \in {"returned", "raised"}
    /\ um_pc' = "idle"
    /\ um_x' = None /\ um_x0' = None /\ um_out' = None
    /\ UNCHANGED um_model
    /\ UNCHANGED sepVars

NextUnmix == UnmixCall \/ UnmixForward \/ UnmixFinish

SpecUnmix == InitUnmix /\ [][NextUnmix]_vars

(***************************************************************************)
(* Properties.                                                             *)
(***************************************************************************)
\* number of registered targets, plus one if a residual name is configured
EffectiveCount == self.nb_targets + (IF IsNone(self.residual) THEN 0 ELSE 1)

\* the call got past the configuration guard
LoopEntered ==
    \/ pc \in {"sample", "window", "done"}
    \/ pc = "failed" /\ err \notin {"ConfigError", "ValueError"}

\* nb_frames of the transform of a waveform of T samples (center=True)
FrameCount(T, n_hop) == 1 + T \div n_hop

\* the estimators of the running call are in training mode and get a single
\* row (nb_frames * nb_samples = 1), on which bn1 raises
SingleRowInTraining ==
    /\ self.estimators.training
    /\ FrameCount(Len0(audio0[0][0]), self.estimators.n_hop) * Len0(audio0) = 1

Ceil(a, b) == (a + b - 1) \div b

\* the windows handed to wiener so far for batch item s
WindowsOf(s) == SelectSeq(hist.windows, LAMBDA w : w.sample = s)

\* the while loop of batch item s has run to its end
SampleDone(s) ==
    \/ pc \in {"sample", "window", "done"} /\ s < sample
    \/ pc = "failed" /\ err = "IstftError" /\ s < sample
    \/ pc = "window" /\ s = sample /\ pos >= nb_frames

AllFrames(ts) == [f \in Range0(nb_frames) |-> ts[f]]

C2_ReturnsMapping ==
    pc = "done" =>
       /\ estimates.type = "dict"
       /\ DOMAIN estimates.value = {targets[i] : i \in 1 .. Len(targets)}
       /\ \A name \in DOMAIN estimates.value :
             \A s \in DOMAIN estimates.value[name] :
                \A c \in DOMAIN estimates.value[name][s] :
                   Len0(estimates.value[name][s][c]) = Len0(audio0[0][0])

(* C3: for every batch item the windows handed to wiener are runs of        *)
(* consecutive frame indices, the first starting at frame 0 and each next   *)
(* one right after the previous, of at most batch_size frames (all frames   *)
(* when batch_size is unset), only the last being shorter; when the item's  *)
(* loop ends they cover 0 .. nb_frames-1; and each window's result sits in  *)
(* exactly the frames of the output tensor it was read from, every other    *)
(* frame still holding zeros.                                               *)
C3_Windows ==
    LoopEntered =>
       \A s \in Range0(Len0(audio)) :
          LET W == WindowsOf(s)
              B == EffectiveBatchSize(self.batch_size, nb_frames)
          IN /\ \A i \in 1 .. Len(W) :
                   LET t == W[i].read
                   IN /\ Len(t) >= 1
                      /\ \A n \in 1 .. Len(t) - 1 : t[n + 1] = t[n] + 1
                      /\ t[1] = IF i = 1 THEN 0
                                ELSE W[i - 1].read[Len(W[i - 1].read)] + 1
                      /\ t[Len(t)] < nb_frames
                      /\ Len(t) <= B
                      /\ i < Len(W) => Len(t) = B
                      /\ W[i].written = t
                      /\ SelectFrames(targets_stft[s], t) =
                            wiener(SelectFrames(spectrograms[s], t),
                                   SelectFrames(mix_stft[s], t),
                                   self.niter, FALSE, self.residual)
             /\ SampleDone(s) =>
                   /\ Len(W) >= 1
                   /\ W[Len(W)].read[Len(W[Len(W)].read)] = nb_frames - 1
             /\ \A f \in Range0(nb_frames) :
                   (\A i \in 1 .. Len(W) : \A n \in 1 .. Len(W[i].read) : W[i].read[n] # f)
                      => targets_stft[s][f] = ZerosStft(mix_stft, nb_sources)[s][f]

C3_Witness ==
    /\ pc = "done"
    /\ ~IsNone(self.batch_size) /\ Val(self.batch_size) >= 2
    /\ Len(WindowsOf(0)) >= 2
    /\ Len(WindowsOf(0)[Len(WindowsOf(0))].read) < Val(self.batch_size)

\* every element of a 4-axis tensor is >= 0
NonNegative4(x) ==
    \A f \in DOMAIN x : \A s \in DOMAIN x[f] :
       \A c \in DOMAIN x[f][s] : \A k \in DOMAIN x[f][s][c] : x[f][s][c][k] >= 0

(* C5, as stated: every element of the output of OpenUnmix.forward is >= 0, *)
(* for arbitrary input and parameters, in waveform mode and in spectrogram  *)
(* passthrough mode.                                                        *)
C5_NonNegativeAsStated == um_pc = "returned" => NonNegative4(um_out)

(* C5, amended: every element of the output of OpenUnmix.forward is >= 0    *)
(* in waveform mode for arbitrary input and parameters, and in spectrogram  *)
(* passthrough mode whenever every element of the caller's tensor is >= 0.  *)
C5_NonNegative ==
    (um_pc = "returned" /\ (um_model.input_is_spectrogram => NonNegative4(um_x0)))
       => NonNegative4(um_out)

C5_Witness ==
    /\ um_pc = "returned"
    /\ ~um_model.input_is_spectrogram
    /\ \E c \in DOMAIN um_x0[0] : \E i \in DOMAIN um_x0[0][c] : um_x0[0][c][i] < 0
    /\ \E f \in DOMAIN um_out : \E c \in DOMAIN um_out[f][0] :
          \E k \in DOMAIN um_out[f][0][c] : um_out[f][0][c][k] > 0

(* C6: after any call of OpenUnmix.forward, returned or raised, the tensor  *)
(* the caller passed in holds the same values as before the call, in        *)
(* waveform mode and in spectrogram passthrough mode.                       *)
C6_InputUnchanged == um_pc \in {"returned", "raised"} => um_x = um_x0

(* C7: with one registered target and no residual, niter is zeroed: a call  *)
(* with niter > 0 does not raise the configuration error but runs the       *)
(* refinement with 0 EM iterations and returns.                             *)
C7_NiterZeroed ==
    (self.nb_targets = 1 /\ IsNone(self.residual) /\ self.niter > 0) =>
       /\ err # "ConfigError"
       /\ pc = "done" =>
             \A s \in Range0(Len0(audio)) :
                AllFrames(targets_stft[s]) =
                   wiener(SelectFrames(spectrograms[s], Arange(0, nb_frames)),
                          SelectFrames(mix_stft[s], Arange(0, nb_frames)),
                          0, FALSE, self.residual)

\* the output on the mixture of the estimator registered under a name
OutputOf(name) == OpenUnmix_forward(EstimatorOf(name, self.estimators), audio0).out

\* slice n of the stack, in the layout (frames, samples, channels, bins) of an
\* estimator's output, before and after spectrograms.permute(1, 0, 3, 2, 4)
SliceOf(sp, n) ==
    [f \in DOMAIN sp |-> [s \in DOMAIN sp[f] |-> [c \in DOMAIN sp[f][s] |->
       [k \in DOMAIN sp[f][s][c] |-> sp[f][s][c][k][n]]]]]
PermutedSliceOf(sp, n) ==
    [f \in DOMAIN sp[0] |-> [s \in DOMAIN sp |-> [c \in DOMAIN sp[s][f][0] |->
       [k \in DOMAIN sp[s][f] |-> sp[s][f][k][c][n]]]]]

\* slice j-1 of the stack is the output of the j-th name of `order`, for the
\* slices written so far: each written once, in that order, into a stack
\* allocated once; and in the output names the residual comes last
StackedInOrder(order) ==
    /\ pc = "targets" =>
          /\ hist.allocs = (IF j >= 1 THEN 1 ELSE 0)
          /\ Len(hist.writes) = j
          /\ \A n \in 1 .. j :
                /\ hist.writes[n] = <<n - 1, order[n]>>
                /\ SliceOf(spectrograms, n - 1) = OutputOf(order[n])
    /\ (pc = "guard" \/ LoopEntered) =>
          /\ hist.allocs = 1
          /\ Len(hist.writes) = self.nb_targets
          /\ DOMAIN spectrograms[0][0][0][0] = Range0(self.nb_targets)
          /\ \A n \in 1 .. self.nb_targets :
                /\ hist.writes[n] = <<n - 1, order[n]>>
                /\ targets[n] = order[n]
                /\ pc \in {"guard", "done"} =>
                      PermutedSliceOf(spectrograms, n - 1) = OutputOf(order[n])
          /\ Len(targets) = EffectiveCount
          /\ ~IsNone(self.residual) => targets[Len(targets)] = Val(self.residual)

(* C8, as stated: slice j of the stacked magnitudes is the output of the    *)
(* j-th target in insertion order of the targets mapping passed to the      *)
(* Separator; every slice 0 .. nb_targets-1 is written exactly once; the    *)
(* stack is allocated once, on the first target; and in the list of output  *)
(* names the residual name, when configured, comes after all registered     *)
(* targets.                                                                 *)
C8_SourceOrderAsStated == StackedInOrder(given)

(* C8, amended: slice j of the stacked magnitudes is the output of the j-th *)
(* target in the iteration order of the registered ModuleDict, which holds  *)
(* the keys of the caller's mapping either in insertion order or in sorted  *)
(* order (while the stack is filled, when it is complete and still when the *)
(* call returns), and is the insertion order whenever the ModuleDict kept   *)
(* it; every slice 0 .. nb_targets-1 is written exactly once, in that       *)
(* order; the stack is allocated once, on the first target; and the output  *)
(* names list the registered targets in the same order as the slices,       *)
(* followed by the residual name when one is configured.                    *)
C8_SourceOrder ==
    /\ self.targets \in {given, SortKeys(given)}
    /\ StackedInOrder(self.targets)
    /\ self.targets = given => StackedInOrder(given)

C8_Witness ==
    /\ pc = "guard"
    /\ self.nb_targets = 2 /\ ~IsNone(self.residual)
    /\ self.targets # given
    /\ \E s \in DOMAIN spectrograms : \E f \in DOMAIN spectrograms[s] :
          spectrograms[s][f][0][0][0] # spectrograms[s][f][0][0][1]

(* C9: the frame-window loop always ends.  Every iteration of the while   *)
(* loop either raises or moves pos strictly forward, never past nb_frames,  *)
(* and every exit of the while loop moves on to the next batch item, never  *)
(* past the last, after which the call leaves the loop for good: the loop makes finitely many wiener calls, for every      *)
(* batch, frame count and batch_size (unset, 0, negative or positive).      *)
(* When the loop of a batch item has ended, wiener was called               *)
(* ceil(nb_frames / batch_size) times for it when batch_size >= 1, and once *)
(* when batch_size is unset or 0.                                           *)
C9_LoopEnds ==
    /\ [](LoopEntered =>
            \A s \in Range0(Len0(audio)) :
               /\ Len(WindowsOf(s)) <= nb_frames
               /\ SampleDone(s) =>
                     Len(WindowsOf(s)) =
                        Ceil(nb_frames, EffectiveBatchSize(self.batch_size, nb_frames)))
    /\ [][/\ (pc = "window" /\ pos < nb_frames) =>
                \/ pc' = "failed"
                \/ /\ pc' = "window" /\ sample' = sample
                   /\ pos < pos' /\ pos' <= nb_frames
                   /\ Len(hist'.windows) = Len(hist.windows) + 1
          /\ (pc = "window" /\ pos >= nb_frames) =>
                /\ pc' = "sample" /\ sample' = sample + 1 /\ sample' <= Len0(audio)
                /\ hist' = hist
          /\ (pc = "sample" /\ sample < Len0(audio)) =>
                pc' = "window" /\ sample' = sample /\ pos' = 0 /\ hist' = hist
          /\ (pc = "sample" /\ sample >= Len0(audio)) =>
                pc' \in {"done", "failed"} /\ hist' = hist]_vars

C9_Witness ==
    /\ pc = "done"
    /\ Len0(audio) >= 2
    /\ ~IsNone(self.batch_size) /\ Val(self.batch_size) >= 1
    /\ Val(self.batch_size) < nb_frames
    /\ nb_frames % Val(self.batch_size) # 0
    /\ Len(hist.windows) = Len0(audio) * Ceil(nb_frames, Val(self.batch_size))

(* C10: after any sequence of forward calls, completed or failed, niter,    *)
(* residual, batch_size, nb_targets, sample_rate and the list of registered *)
(* target names are as right after construction; in particular the next     *)
(* call starts from the same nb_targets although the previous one appended  *)
(* the residual name and incremented its source count.                      *)
C10_Stateless ==
    /\ self = self0
    /\ pc = "targets" => nb_sources = self0.nb_targets

C10_Witness ==
    /\ pc = "done"
    /\ ~IsNone(self.residual)
    /\ nb_sources = self0.nb_targets + 1
    /\ targets # self0.targets
    /\ Len(targets) = Len(self0.targets) + 1

====
